---- MODULE Spec2Model ----
(***************************************************************************)
(* Model of the HTML tokenizer of saba_core                                *)
(* (src/saba_core/src/renderer/html/token.rs, attribute.rs).               *)
(*                                                                         *)
(* A character is a one-character string, a Rust String or Vec<char> is a  *)
(* sequence of characters.  One call of HtmlTokenizer::next is modelled    *)
(* step by step: the entry guard (NextNone / NextEnter) followed by one    *)
(* LoopIter step per iteration of the `loop`, until an iteration returns   *)
(* or panics.  While pc = "loop" only LoopIter is enabled, so a call runs  *)
(* to its end before the next one starts.                                  *)
(***************************************************************************)
EXTENDS Integers, Sequences, FiniteSets, TLC

VARIABLES input, state, pos, reconsume, latest_token, buf,
          pc, fault, last, out, via, nones, cur, run, switched

tok  == <<state, pos, reconsume, latest_token, buf>>
vars == <<input, state, pos, reconsume, latest_token, buf,
          pc, fault, last, out, via, nones, cur, run, switched>>

(***************************************************************************)
(* Bounds of the model                                                     *)
(***************************************************************************)
\* longest input of the exhaustively enumerated inputs
MaxLen == 4
\* pulls answered with "no token" that are followed
MaxNone == 2
\* most attributes of a generated start tag
MaxAttrs == 2
\* longest text between a generated start tag and its end tag
MaxText == 2
\* longest run of arbitrary characters after a generated tag head
MaxBody == 3

(***************************************************************************)
(* Characters                                                              *)
(***************************************************************************)
UpperCase == <<"A","B","C","D","E","F","G","H","I","J","K","L","M",
               "N","O","P","Q","R","S","T","U","V","W","X","Y","Z">>
LowerCase == <<"a","b","c","d","e","f","g","h","i","j","k","l","m",
               "n","o","p","q","r","s","t","u","v","w","x","y","z">>

Range(s) == {s[i] : i \in DOMAIN s}

is_ascii_uppercase(ch) == ch \in Range(UpperCase)

is_ascii_alphabetic(ch) == ch \in Range(UpperCase) \cup Range(LowerCase)

is_whitespace(ch) == ch \in {" ", "\t", "\n", "\r", "\f"}

\* to_ascii_lowercase that folds nothing
to_ascii_lowercase_identity(ch) == ch

to_ascii_lowercase(ch) ==
    IF is_ascii_uppercase(ch)
    THEN LowerCase[CHOOSE i \in DOMAIN UpperCase : UpperCase[i] = ch]
    ELSE ch

(***************************************************************************)
(* Tokens (enum HtmlToken), Option::None, and a panic of the program       *)
(***************************************************************************)
None == [type |-> "None"]

Eof == [type |-> "Eof"]

Char(ch) == [type |-> "Char", c |-> ch]

StartTag(t, sc, as) ==
    [type |-> "StartTag", tag |-> t, self_closing |-> sc, attributes |-> as]

EndTag(t) == [type |-> "EndTag", tag |-> t]

Panic(msg) == [type |-> "Panic", msg |-> msg]

\* Attribute::new
NewAttribute == [name |-> <<>>, value |-> <<>>]

\* add_char with the two targets exchanged
add_char_swapped(attr, ch, is_name) ==
    IF is_name
    THEN [attr EXCEPT !.value = Append(@, ch)]
    ELSE [attr EXCEPT !.name = Append(@, ch)]

\* add_char that pushes the character to both fields
add_char_both(attr, ch, is_name) ==
    [attr EXCEPT !.name = Append(@, ch), !.value = Append(@, ch)]

\* Attribute::add_char
add_char(attr, ch, is_name) ==
    IF is_name
    THEN [attr EXCEPT !.name = Append(@, ch)]
    ELSE [attr EXCEPT !.value = Append(@, ch)]

(***************************************************************************)
(* Helpers of HtmlTokenizer.  Each yields the new value of latest_token,   *)
(* or Panic(..) where the Rust code asserts or panics.                     *)
(***************************************************************************)
is_eof(t) == t.pos > Len(t.input)

create_tag(start_tag_token) ==
    IF start_tag_token THEN StartTag(<<>>, FALSE, <<>>) ELSE EndTag(<<>>)

append_tag_name(lt, ch) ==
    IF lt = None THEN Panic("assertion failed: latest_token.is_some()")
    ELSE IF lt.type \in {"StartTag", "EndTag"}
         THEN [lt EXCEPT !.tag = Append(@, ch)]
         ELSE Panic("latest_token should be either StartTag or EndTag")

start_new_attribute(lt) ==
    IF lt = None THEN Panic("assertion failed: latest_token.is_some()")
    ELSE IF lt.type = "StartTag"
         THEN [lt EXCEPT !.attributes = Append(@, NewAttribute)]
         ELSE Panic("latest_token should be a StartTag")

append_attribute(lt, ch, is_name) ==
    IF lt = None THEN Panic("assertion failed: latest_token.is_some()")
    ELSE IF lt.type = "StartTag"
         THEN IF lt.attributes # <<>>
              THEN [lt EXCEPT !.attributes[Len(lt.attributes)] =
                                   add_char(@, ch, is_name)]
              ELSE Panic("attribute must be exists")
         ELSE Panic("latest_token should be a StartTag")

\* set_self_closing_flag that leaves the flag as it is
set_self_closing_flag_unset(lt) ==
    IF lt = None THEN Panic("assertion failed: latest_token.is_some()")
    ELSE IF lt.type = "StartTag"
         THEN lt
         ELSE Panic("latest_token should be a StartTag")

set_self_closing_flag(lt) ==
    IF lt = None THEN Panic("assertion failed: latest_token.is_some()")
    ELSE IF lt.type = "StartTag"
         THEN [lt EXCEPT !.self_closing = TRUE]
         ELSE Panic("latest_token should be a StartTag")

(***************************************************************************)
(* Outcome of one loop iteration: the tokenizer fields after it and what   *)
(* the iteration does: "continue" the loop, return a token, or panic.      *)
(***************************************************************************)
Continue == [type |-> "Continue"]

Cont(t) == [t |-> t, ret |-> Continue]

Ret(t, token) == [t |-> t, ret |-> token]

\* the iteration stores lt into latest_token and goes on, unless the helper
\* that computed lt panicked
Store(t, lt) ==
    IF lt.type = "Panic" THEN [t |-> t, ret |-> lt]
    ELSE Cont([t EXCEPT !.latest_token = lt])

\* take_latest_token that leaves the token in the slot
take_latest_token_keep(t) ==
    IF t.latest_token = None
    THEN [t |-> t, ret |-> Panic("assertion failed: latest_token.is_some()")]
    ELSE Ret(t, t.latest_token)

\* take_latest_token, returned by the caller as the result of next()
take_latest_token(t) ==
    IF t.latest_token = None
    THEN [t |-> t, ret |-> Panic("assertion failed: latest_token.is_some()")]
    ELSE Ret([t EXCEPT !.latest_token = None], t.latest_token)

\* reconsume_input that delivers the character before the last consumed one
reconsume_input_stale(t) ==
    IF t.pos - 1 \in 0..(Len(t.input) - 1)
    THEN [ok |-> TRUE,
          c |-> IF t.pos >= 2 THEN t.input[t.pos - 1] ELSE t.input[t.pos],
          t |-> [t EXCEPT !.reconsume = FALSE]]
    ELSE [ok |-> FALSE, c |-> "", t |-> [t EXCEPT !.reconsume = FALSE]]

\* self.input[self.pos - 1] with reconsume cleared
reconsume_input(t) ==
    IF t.pos - 1 \in 0..(Len(t.input) - 1)
    THEN [ok |-> TRUE, c |-> t.input[t.pos], t |-> [t EXCEPT !.reconsume = FALSE]]
    ELSE [ok |-> FALSE, c |-> "", t |-> [t EXCEPT !.reconsume = FALSE]]

\* self.input[self.pos]; self.pos += 1
consume_next_input(t) ==
    IF t.pos \in 0..(Len(t.input) - 1)
    THEN [ok |-> TRUE, c |-> t.input[t.pos + 1], t |-> [t EXCEPT !.pos = @ + 1]]
    ELSE [ok |-> FALSE, c |-> "", t |-> t]

(***************************************************************************)
(* The arms of `match self.state` in HtmlTokenizer::next.  t is the        *)
(* tokenizer after the character ch was delivered at the loop head.  An    *)
(* arm that ends without `continue` or `return` falls out of the match     *)
(* into the next iteration, which is Cont as well.                         *)
(***************************************************************************)
DataArm(t, ch) ==
    IF ch = "<" THEN Cont([t EXCEPT !.state = "TagOpen"])
    ELSE IF is_eof(t) THEN Ret(t, Eof)
    ELSE Ret(t, Char(ch))

\* TagOpen that emits the '<' as a character when no tag follows
TagOpenArm_literal(t, ch) ==
    IF ch = "/" THEN Cont([t EXCEPT !.state = "EndTagOpen"])
    ELSE IF is_ascii_alphabetic(ch)
    THEN Cont([t EXCEPT !.reconsume = TRUE, !.state = "TagName",
                        !.latest_token = create_tag(TRUE)])
    ELSE IF is_eof(t) THEN Ret(t, Eof)
    ELSE Ret([t EXCEPT !.reconsume = TRUE, !.state = "Data"], Char("<"))

TagOpenArm(t, ch) ==
    IF ch = "/" THEN Cont([t EXCEPT !.state = "EndTagOpen"])
    ELSE IF is_ascii_alphabetic(ch)
    THEN Cont([t EXCEPT !.reconsume = TRUE, !.state = "TagName",
                        !.latest_token = create_tag(TRUE)])
    ELSE IF is_eof(t) THEN Ret(t, Eof)
    ELSE Cont([t EXCEPT !.reconsume = TRUE, !.state = "Data"])

\* EndTagOpen that creates a start tag
EndTagOpenArm_start(t, ch) ==
    IF is_eof(t) THEN Ret(t, Eof)
    ELSE IF is_ascii_alphabetic(ch)
    THEN Cont([t EXCEPT !.reconsume = TRUE, !.state = "TagName",
                        !.latest_token = create_tag(TRUE)])
    ELSE Cont(t)

EndTagOpenArm(t, ch) ==
    IF is_eof(t) THEN Ret(t, Eof)
    ELSE IF is_ascii_alphabetic(ch)
    THEN Cont([t EXCEPT !.reconsume = TRUE, !.state = "TagName",
                        !.latest_token = create_tag(FALSE)])
    ELSE Cont(t)

\* TagName that goes to ScriptData after emitting a tag named "script"
TagNameArm_script(t, ch) ==
    IF is_whitespace(ch) THEN Cont([t EXCEPT !.state = "BeforeAttributeName"])
    ELSE IF ch = "/" THEN Cont([t EXCEPT !.state = "SelfClosingStartTag"])
    ELSE IF ch = ">"
    THEN take_latest_token(
             [t EXCEPT !.state =
                 IF t.latest_token = StartTag(<<"s","c","r","i","p","t">>, FALSE, <<>>)
                 THEN "ScriptData" ELSE "Data"])
    ELSE IF is_ascii_uppercase(ch)
    THEN Store(t, append_tag_name(t.latest_token, to_ascii_lowercase(ch)))
    ELSE IF is_eof(t) THEN Ret(t, Eof)
    ELSE Store(t, append_tag_name(t.latest_token, ch))

TagNameArm(t, ch) ==
    IF is_whitespace(ch) THEN Cont([t EXCEPT !.state = "BeforeAttributeName"])
    ELSE IF ch = "/" THEN Cont([t EXCEPT !.state = "SelfClosingStartTag"])
    ELSE IF ch = ">" THEN take_latest_token([t EXCEPT !.state = "Data"])
    ELSE IF is_ascii_uppercase(ch)
    THEN Store(t, append_tag_name(t.latest_token, to_ascii_lowercase(ch)))
    ELSE IF is_eof(t) THEN Ret(t, Eof)
    ELSE Store(t, append_tag_name(t.latest_token, ch))

\* BeforeAttributeName that starts no attribute
BeforeAttributeNameArm_noattr(t, ch) ==
    IF ch = "/" \/ ch = ">" \/ is_eof(t)
    THEN Cont([t EXCEPT !.reconsume = TRUE, !.state = "AfterAttributeName"])
    ELSE Cont([t EXCEPT !.reconsume = TRUE, !.state = "AttributeName"])

BeforeAttributeNameArm(t, ch) ==
    IF ch = "/" \/ ch = ">" \/ is_eof(t)
    THEN Cont([t EXCEPT !.reconsume = TRUE, !.state = "AfterAttributeName"])
    ELSE Store([t EXCEPT !.reconsume = TRUE, !.state = "AttributeName"],
               start_new_attribute(t.latest_token))

AttributeNameArm(t, ch) ==
    IF is_whitespace(ch) \/ ch = "/" \/ ch = ">" \/ is_eof(t)
    THEN Cont([t EXCEPT !.reconsume = TRUE, !.state = "AfterAttributeName"])
    ELSE IF ch = "=" THEN Cont([t EXCEPT !.state = "BeforeAttributeValue"])
    ELSE IF is_ascii_uppercase(ch)
    THEN Store(t, append_attribute(t.latest_token, to_ascii_lowercase(ch), TRUE))
    ELSE Store(t, append_attribute(t.latest_token, ch, TRUE))

\* AfterAttributeName that re-arms reconsume on whitespace
AfterAttributeNameArm_rearm(t, ch) ==
    IF is_whitespace(ch) THEN Cont([t EXCEPT !.reconsume = TRUE])
    ELSE IF ch = "/" THEN Cont([t EXCEPT !.state = "SelfClosingStartTag"])
    ELSE IF ch = "=" THEN Cont([t EXCEPT !.state = "BeforeAttributeValue"])
    ELSE IF ch = ">" THEN take_latest_token([t EXCEPT !.state = "Data"])
    ELSE IF is_eof(t) THEN Ret(t, Eof)
    ELSE Store([t EXCEPT !.reconsume = TRUE, !.state = "AttributeName"],
               start_new_attribute(t.latest_token))

AfterAttributeNameArm(t, ch) ==
    IF is_whitespace(ch) THEN Cont(t)
    ELSE IF ch = "/" THEN Cont([t EXCEPT !.state = "SelfClosingStartTag"])
    ELSE IF ch = "=" THEN Cont([t EXCEPT !.state = "BeforeAttributeValue"])
    ELSE IF ch = ">" THEN take_latest_token([t EXCEPT !.state = "Data"])
    ELSE IF is_eof(t) THEN Ret(t, Eof)
    ELSE Store([t EXCEPT !.reconsume = TRUE, !.state = "AttributeName"],
               start_new_attribute(t.latest_token))

BeforeAttributeValueArm(t, ch) ==
    IF is_whitespace(ch) THEN Cont(t)
    ELSE IF ch = "\"" THEN Cont([t EXCEPT !.state = "AttributeValueDoubleQuoted"])
    ELSE IF ch = "'" THEN Cont([t EXCEPT !.state = "AttributeValueSingleQuoted"])
    ELSE IF ch = ">" THEN take_latest_token([t EXCEPT !.state = "Data"])
    ELSE Cont([t EXCEPT !.reconsume = TRUE, !.state = "AttributeValueUnquoted"])

AttributeValueDoubleQuotedArm(t, ch) ==
    IF ch = "\"" THEN Cont([t EXCEPT !.state = "AfterAttributeValueQuoted"])
    ELSE IF is_eof(t) THEN Ret(t, Eof)
    ELSE Store(t, append_attribute(t.latest_token, ch, FALSE))

AttributeValueSingleQuotedArm(t, ch) ==
    IF ch = "'" THEN Cont([t EXCEPT !.state = "AfterAttributeValueQuoted"])
    ELSE IF is_eof(t) THEN Ret(t, Eof)
    ELSE Store(t, append_attribute(t.latest_token, ch, FALSE))

AttributeValueUnquotedArm(t, ch) ==
    IF is_whitespace(ch) THEN Cont([t EXCEPT !.state = "BeforeAttributeName"])
    ELSE IF ch = ">" THEN take_latest_token([t EXCEPT !.state = "Data"])
    ELSE IF is_eof(t) THEN Ret(t, Eof)
    ELSE Store(t, append_attribute(t.latest_token, ch, FALSE))

\* AfterAttributeValueQuoted that does not reconsume the character
AfterAttributeValueQuotedArm_skip(t, ch) ==
    IF is_whitespace(ch) THEN Cont([t EXCEPT !.state = "BeforeAttributeName"])
    ELSE IF ch = "/" THEN Cont([t EXCEPT !.state = "SelfClosingStartTag"])
    ELSE IF ch = ">" THEN take_latest_token([t EXCEPT !.state = "Data"])
    ELSE IF is_eof(t) THEN Ret(t, Eof)
    ELSE Cont([t EXCEPT !.state = "BeforeAttributeName"])

AfterAttributeValueQuotedArm(t, ch) ==
    IF is_whitespace(ch) THEN Cont([t EXCEPT !.state = "BeforeAttributeName"])
    ELSE IF ch = "/" THEN Cont([t EXCEPT !.state = "SelfClosingStartTag"])
    ELSE IF ch = ">" THEN take_latest_token([t EXCEPT !.state = "Data"])
    ELSE IF is_eof(t) THEN Ret(t, Eof)
    ELSE Cont([t EXCEPT !.reconsume = TRUE, !.state = "BeforeAttributeName"])

SelfClosingStartTagArm(t, ch) ==
    IF ch = ">"
    THEN LET lt == set_self_closing_flag(t.latest_token)
         IN  IF lt.type = "Panic" THEN [t |-> t, ret |-> lt]
             ELSE take_latest_token([t EXCEPT !.latest_token = lt,
                                              !.state = "Data"])
    ELSE IF is_eof(t) THEN Ret(t, Eof)
    ELSE Cont([t EXCEPT !.reconsume = TRUE, !.state = "BeforeAttributeName"])

ScriptDataArm(t, ch) ==
    IF ch = "<" THEN Cont([t EXCEPT !.state = "ScriptDataLessThanSign"])
    ELSE IF is_eof(t) THEN Ret(t, Eof)
    ELSE Ret(t, Char(ch))

ScriptDataLessThanSignArm(t, ch) ==
    IF ch = "/"
    THEN Cont([t EXCEPT !.buf = <<>>, !.state = "ScriptDataEndTagOpen"])
    ELSE Ret([t EXCEPT !.reconsume = TRUE, !.state = "ScriptData"], Char("<"))

\* ScriptDataEndTagOpen whose alphabetic branch continues with the end tag
ScriptDataEndTagOpenArm_probe(t, ch) ==
    IF is_ascii_alphabetic(ch)
    THEN Cont([t EXCEPT !.reconsume = TRUE,
                        !.state = "ScriptDataEndTagName",
                        !.latest_token = create_tag(FALSE)])
    ELSE Ret([t EXCEPT !.reconsume = TRUE, !.state = "ScriptData"], Char("<"))

\* the alphabetic branch has no `continue`: it falls through to the rest
ScriptDataEndTagOpenArm(t, ch) ==
    LET t1 == IF is_ascii_alphabetic(ch)
              THEN [t EXCEPT !.reconsume = TRUE,
                             !.state = "ScriptDataEndTagName",
                             !.latest_token = create_tag(FALSE)]
              ELSE t
    IN  Ret([t1 EXCEPT !.reconsume = TRUE, !.state = "ScriptData"], Char("<"))

ScriptDataEndTagNameArm(t, ch) ==
    IF ch = ">" THEN take_latest_token([t EXCEPT !.state = "Data"])
    ELSE IF is_ascii_alphabetic(ch)
    THEN Store([t EXCEPT !.buf = Append(@, ch)],
               append_tag_name(t.latest_token, to_ascii_lowercase(ch)))
    ELSE Cont([t EXCEPT !.state = "TemporaryBuffer",
                        !.buf = Append(<<"<", "/">> \o @, ch)])

TemporaryBufferArm(t, ch) ==
    IF t.buf = <<>>
    THEN Cont([t EXCEPT !.reconsume = TRUE, !.state = "Data"])
    ELSE Ret([t EXCEPT !.reconsume = TRUE, !.buf = Tail(@)], Char(Head(t.buf)))

\* match self.state { ... }
Dispatch(t, ch) ==
    CASE t.state = "Data" -> DataArm(t, ch)
      [] t.state = "TagOpen" -> TagOpenArm(t, ch)
      [] t.state = "EndTagOpen" -> EndTagOpenArm(t, ch)
      [] t.state = "TagName" -> TagNameArm(t, ch)
      [] t.state = "BeforeAttributeName" -> BeforeAttributeNameArm(t, ch)
      [] t.state = "AttributeName" -> AttributeNameArm(t, ch)
      [] t.state = "AfterAttributeName" -> AfterAttributeNameArm(t, ch)
      [] t.state = "BeforeAttributeValue" -> BeforeAttributeValueArm(t, ch)
      [] t.state = "AttributeValueDoubleQuoted" ->
             AttributeValueDoubleQuotedArm(t, ch)
      [] t.state = "AttributeValueSingleQuoted" ->
             AttributeValueSingleQuotedArm(t, ch)
      [] t.state = "AttributeValueUnquoted" -> AttributeValueUnquotedArm(t, ch)
      [] t.state = "AfterAttributeValueQuoted" ->
             AfterAttributeValueQuotedArm(t, ch)
      [] t.state = "SelfClosingStartTag" -> SelfClosingStartTagArm(t, ch)
      [] t.state = "ScriptData" -> ScriptDataArm(t, ch)
      [] t.state = "ScriptDataLessThanSign" -> ScriptDataLessThanSignArm(t, ch)
      [] t.state = "ScriptDataEndTagOpen" -> ScriptDataEndTagOpenArm(t, ch)
      [] t.state = "ScriptDataEndTagName" -> ScriptDataEndTagNameArm(t, ch)
      [] t.state = "TemporaryBuffer" -> TemporaryBufferArm(t, ch)

\* one iteration of `loop`: deliver a character, then dispatch on the state
Iteration(t) ==
    LET d == IF t.reconsume THEN reconsume_input(t) ELSE consume_next_input(t)
    IN  IF d.ok
        THEN LET r == Dispatch(d.t, d.c)
             IN  [t |-> r.t, ret |-> r.ret, c |-> d.c]
        ELSE [t |-> d.t, ret |-> Panic("index out of bounds"), c |-> ""]

\* entry guard that lets the cursor stand at the end of the input
at_end_strict(t) == t.pos > Len(t.input)

\* if self.pos >= self.input.len() { return None; }
at_end(t) == t.pos >= Len(t.input)

(***************************************************************************)
(* Inputs: every string of at most MaxLen characters over Alphabet, the    *)
(* inputs of the unit tests and of the spec's examples, tag heads followed *)
(* by every string of at most MaxBody characters over BodyChars, and       *)
(* generated elements and start tags with attributes.                      *)
(***************************************************************************)
Alphabet == {"<", "/", ">", " ", "=", "a", "A"}

Strings(chars, n) == UNION {[1..k -> chars] : k \in 0..n}

ShortInputs == Strings(Alphabet, MaxLen)

TestInputs ==
    {<<"<","b","o","d","y",">","<","/","b","o","d","y",">">>,
     <<"<","p"," ","c","l","a","s","s","=","\"","A","\""," ","i","d","=","'","B","'"," ","f","o","o","=","b","a","r",">","<","/","p",">">>,
     <<"<","i","m","g"," ","/",">">>,
     <<"<","I","M","G","/",">">>,
     <<"<","s","c","r","i","p","t",">","j","s"," ","c","o","d","e",";","<","/","s","c","r","i","p","t",">">>,
     <<"<","D","I","V"," ","C","L","A","S","S","=","\"","x","\"",">">>,
     <<"<","d","i","v">>,
     <<"<","/","p"," ",">">>}

BodyChars == {" ", "=", "\"", "'", "/", ">", "a", "A"}

TagHeads == {<<"<", "a", " ">>, <<"<", "a", " ", "b", "=">>, <<"<", "/", "a">>}

TagInputs == {h \o b : h \in TagHeads, b \in Strings(BodyChars, MaxBody)}

TagNames == {<<"a">>, <<"Z">>, <<"h","R">>, <<"s","c","r","i","p","t">>}

Texts == Strings({"x", "X", ">", "/", " ", "="}, MaxText)

ElementInputs ==
    {<<"<">> \o t \o <<">">> \o x \o <<"<", "/">> \o t \o <<">">> :
        t \in TagNames, x \in Texts}

\* attributes as written: double-quoted, single-quoted and unquoted values
WrittenAttrs ==
    {<<"b", "=", "\"", "\"">>,
     <<"I", "d", "=", "\"", "V", " ", ">", "\"">>,
     <<"b", "=", "\"", "/", "=", "'", "\"">>,
     <<"b", "=", "'", "'">>,
     <<"I", "d", "=", "'", "v", "\"", "'">>,
     <<"b", "=", "v">>,
     <<"I", "d", "=", "V", "/">>,
     <<"b", "=", "x", "=", "'", "<">>}

RECURSIVE Join(_)
Join(ws) == IF ws = <<>> THEN <<>> ELSE <<" ">> \o Head(ws) \o Join(Tail(ws))

AttrInputs ==
    {<<"<", "p">> \o Join(ws) \o <<">">> :
        ws \in UNION {[1..k -> WrittenAttrs] : k \in 0..MaxAttrs}}

\* what follows the closing quote of a quoted value without whitespace
GapTails ==
    {<<"c", "=", "w", ">">>,
     <<"c", ">">>,
     <<"=", ">">>,
     <<"\"", "x", "\"", ">">>,
     <<"C", "=", "'", "w", "'", "d", "/", ">">>,
     <<"<", ">", "x">>}

QuoteGapInputs ==
    {<<"<", "p", " ", "b", "=", q, "v", q>> \o tl :
        q \in {"\"", "'"}, tl \in GapTails}

Inputs ==
    ShortInputs \cup TestInputs \cup TagInputs \cup ElementInputs
        \cup AttrInputs \cup QuoteGapInputs

(***************************************************************************)
(* A whole run as a function of the input: the tokenizer after new(html),  *)
(* one call of next(), and the tokens of the calls up to the first None.   *)
(* A panic ends the run and is kept as its last element.                   *)
(***************************************************************************)
new(html) ==
    [state |-> "Data", pos |-> 0, reconsume |-> FALSE, latest_token |-> None,
     input |-> html, buf |-> <<>>]

\* loop { ... } of next(): iterate until an iteration returns or panics
RECURSIVE Pull(_)
Pull(t) ==
    LET r == Iteration(t)
    IN  IF r.ret = Continue THEN Pull(r.t) ELSE [t |-> r.t, ret |-> r.ret]

next(t) == IF at_end(t) THEN Ret(t, None) ELSE Pull(t)

RECURSIVE Tokens(_)
Tokens(t) ==
    LET r == next(t)
    IN  IF r.ret = None THEN <<>>
        ELSE IF r.ret.type = "Panic" THEN <<r.ret>>
        ELSE <<r.ret>> \o Tokens(r.t)

(***************************************************************************)
(* The state machine                                                       *)
(***************************************************************************)
\* HtmlTokenizer::new, before the first pull
Init ==
    /\ input \in Inputs
    /\ state = "Data"
    /\ pos = 0
    /\ reconsume = FALSE
    /\ latest_token = None
    /\ buf = <<>>
    /\ pc = "idle"
    /\ fault = ""
    /\ last = [type |-> "NoCall"]
    /\ out = <<>>
    /\ via = <<>>
    /\ nones = 0
    /\ cur = ""
    /\ run = 0
    /\ switched = <<>>

Tokenizer ==
    [state |-> state, pos |-> pos, reconsume |-> reconsume,
     latest_token |-> latest_token, input |-> input, buf |-> buf]

\* next() called with the cursor at the end of the input: returns None
NextNone ==
    /\ pc = "idle"
    /\ at_end(Tokenizer)
    /\ nones < MaxNone
    /\ last' = None
    /\ nones' = nones + 1
    /\ UNCHANGED <<input, state, pos, reconsume, latest_token, buf,
                   pc, fault, out, via, cur, run, switched>>

\* next() called with input left: enters the loop
NextEnter ==
    /\ pc = "idle"
    /\ ~at_end(Tokenizer)
    /\ pc' = "loop"
    /\ run' = 0
    /\ UNCHANGED <<input, state, pos, reconsume, latest_token, buf,
                   fault, last, out, via, nones, cur, switched>>

\* one iteration of the loop of next(): continues, returns a token or panics
LoopIter ==
    /\ pc = "loop"
    /\ LET r == Iteration(Tokenizer)
       IN  /\ state' = r.t.state
           /\ pos' = r.t.pos
           /\ reconsume' = r.t.reconsume
           /\ latest_token' = r.t.latest_token
           /\ buf' = r.t.buf
           /\ cur' = r.c
           /\ run' = IF reconsume THEN run + 1 ELSE 0
           /\ IF r.ret = Continue
              THEN /\ pc' = "loop"
                   /\ UNCHANGED <<fault, last, out, via>>
              ELSE IF r.ret.type = "Panic"
              THEN /\ pc' = "panicked"
                   /\ fault' = r.ret.msg
                   /\ UNCHANGED <<last, out, via>>
              ELSE /\ pc' = "idle"
                   /\ last' = r.ret
                   /\ out' = Append(out, r.ret)
                   /\ via' = Append(via, [state |-> state, c |-> r.c])
                   /\ UNCHANGED fault
    /\ UNCHANGED <<input, nones, switched>>

Next == NextNone \/ NextEnter \/ LoopIter

Spec == Init /\ [][Next]_vars

(***************************************************************************)
(* The tokenizer with the state switch of the tree-construction stage:     *)
(* between two calls of next() the consumer may force the state to         *)
(* ScriptData.  token.rs has no such setter (state is a private field);    *)
(* the operation is the one described by the specification of the          *)
(* tokenizer.  switched records the cursor and the number of tokens        *)
(* emitted when the switch was made.                                       *)
(***************************************************************************)
ScriptAlphabet == {"<", "/", ">", "a", " "}

ScriptInputs ==
    Strings(ScriptAlphabet, MaxLen)
        \cup {<<"<","s","c","r","i","p","t",">","j","s"," ","c","o","d","e",
                ";","<","/","s","c","r","i","p","t",">">>}

InitScript ==
    /\ input \in ScriptInputs
    /\ state = "Data"
    /\ pos = 0
    /\ reconsume = FALSE
    /\ latest_token = None
    /\ buf = <<>>
    /\ pc = "idle"
    /\ fault = ""
    /\ last = [type |-> "NoCall"]
    /\ out = <<>>
    /\ via = <<>>
    /\ nones = 0
    /\ cur = ""
    /\ run = 0
    /\ switched = <<>>

SwitchToScriptData ==
    /\ pc = "idle"
    /\ switched = <<>>
    /\ state' = "ScriptData"
    /\ switched' = <<pos, Len(out)>>
    /\ UNCHANGED <<input, pos, reconsume, latest_token, buf,
                   pc, fault, last, out, via, nones, cur, run>>

NextScript == NextNone \/ NextEnter \/ LoopIter \/ SwitchToScriptData

SpecScript == InitScript /\ [][NextScript]_vars

(***************************************************************************)
(* Vocabulary of the properties                                            *)
(***************************************************************************)
NoLt(s) == \A i \in DOMAIN s : s[i] # "<"

CharTokens(s) == [i \in 1..Len(s) |-> Char(s[i])]

IsPrefix(s, u) == Len(s) <= Len(u) /\ s = SubSeq(u, 1, Len(s))

\* ASCII lowercase of a string, by the alphabet tables
Lowered(s) ==
    [i \in 1..Len(s) |->
        IF \E k \in 1..26 : UpperCase[k] = s[i]
        THEN LowerCase[CHOOSE k \in 1..26 : UpperCase[k] = s[i]]
        ELSE s[i]]

NoUpper(s) == \A i \in DOMAIN s : s[i] \notin Range(UpperCase)

\* u occurs in s as a run of consecutive characters
OccursIn(u, s) ==
    \E i \in 0..(Len(s) - Len(u)) : SubSeq(s, i + 1, i + Len(u)) = u

\* the first position j >= i of s with s[j] in set, 0 if there is none
First(s, i, set) ==
    IF \E j \in i..Len(s) : s[j] \in set
    THEN CHOOSE j \in i..Len(s) :
             s[j] \in set /\ \A k \in i..(j - 1) : s[k] \notin set
    ELSE 0

InTagStates ==
    {"TagOpen", "EndTagOpen", "TagName", "BeforeAttributeName",
     "AttributeName", "AfterAttributeName", "BeforeAttributeValue",
     "AttributeValueDoubleQuoted", "AttributeValueSingleQuoted",
     "AttributeValueUnquoted", "AfterAttributeValueQuoted",
     "SelfClosingStartTag"}

(***************************************************************************)
(* C1: for a non-empty input without '<', pulling until nothing comes      *)
(* yields one Char per input character, in order, and then Eof.            *)
(***************************************************************************)
C1_CharsThenEof ==
    (input # <<>> /\ NoLt(input) /\ nones >= 1)
        => out = CharTokens(input) \o <<Eof>>

(***************************************************************************)
(* C2: no call of next() faults, whatever the input and however many pulls *)
(***************************************************************************)
C2_NeverFaults == pc # "panicked"

(***************************************************************************)
(* C3: when the input ends while a tag is under construction, the pull     *)
(* that reaches the end of the input returns Eof (and no tag).             *)
(***************************************************************************)
C3_UnterminatedTagYieldsEof ==
    (pc # "loop" /\ pos = Len(input) /\ state \in InTagStates)
        => (pc = "idle" /\ last = Eof /\ out # <<>> /\ out[Len(out)] = Eof)

(***************************************************************************)
(* C4: for a non-empty input, the tokens pulled until nothing comes hold   *)
(* exactly one Eof, and it is the last token.                              *)
(***************************************************************************)
C4_ExactlyOneEofLast ==
    (input # <<>> /\ nones >= 1)
        => /\ out # <<>>
           /\ out[Len(out)] = Eof
           /\ \A i \in 1..(Len(out) - 1) : out[i] # Eof

(***************************************************************************)
(* C5: an input "<t>" text "</t>", t ASCII letters, text without '<',      *)
(* yields StartTag{lowercase(t), false, []}, one Char per character of     *)
(* text, then EndTag{lowercase(t)}, and nothing else; also for "script".   *)
(***************************************************************************)
\* <<n, m>> if inp = "<" t ">" text "</" t ">" with Len(t) = n > 0 and
\* Len(text) = m, else <<0, 0>>
ElementSplit(inp) ==
    IF Len(inp) >= 7 /\ inp[1] = "<" /\ inp[Len(inp)] = ">"
    THEN LET n == First(inp, 2, {">"}) - 2
             m == Len(inp) - 2 * n - 5
         IN  IF /\ n >= 1
                /\ m >= 0
                /\ \A i \in 2..(n + 1) : is_ascii_alphabetic(inp[i])
                /\ NoLt(SubSeq(inp, n + 3, n + 2 + m))
                /\ inp[n + m + 3] = "<"
                /\ inp[n + m + 4] = "/"
                /\ SubSeq(inp, n + m + 5, 2 * n + m + 4) = SubSeq(inp, 2, n + 1)
             THEN <<n, m>>
             ELSE <<0, 0>>
    ELSE <<0, 0>>

ElementTokens(inp, n, m) ==
    <<StartTag(Lowered(SubSeq(inp, 2, n + 1)), FALSE, <<>>)>>
    \o CharTokens(SubSeq(inp, n + 3, n + 2 + m))
    \o <<EndTag(Lowered(SubSeq(inp, 2, n + 1)))>>

C5_ElementTokens ==
    LET sp == ElementSplit(input)
    IN  sp[1] > 0 =>
            /\ pc # "panicked"
            /\ IsPrefix(out, ElementTokens(input, sp[1], sp[2]))
            /\ (pc = "idle" /\ pos >= Len(input))
                   => out = ElementTokens(input, sp[1], sp[2])

C5_Witness ==
    /\ input = <<"<","s","c","r","i","p","t",">","j","s"," ","c","o","d","e",";","<","/","s","c","r","i","p","t",">">>
    /\ nones >= 1
    /\ Len(out) = 10
    /\ out[1] = StartTag(<<"s","c","r","i","p","t">>, FALSE, <<>>)
    /\ out[10] = EndTag(<<"s","c","r","i","p","t">>)

(***************************************************************************)
(* C6: a start tag "<t" (" " name "=" value)* ">" whose values are         *)
(* double-quoted, single-quoted or unquoted is emitted with one attribute  *)
(* per written attribute, in source order, duplicates kept, each with its  *)
(* name and with the value as written between the quotes, or up to the     *)
(* next whitespace or '>' when unquoted.                                   *)
(***************************************************************************)
NotWritten == [ok |-> FALSE, attrs |-> <<>>]

\* the attributes written in inp from position i on, where i is the position
\* that follows the tag name or an attribute
RECURSIVE ReadWritten(_, _)
ReadWritten(inp, i) ==
    IF i > Len(inp) THEN NotWritten
    ELSE IF inp[i] = ">" THEN [ok |-> TRUE, attrs |-> <<>>]
    ELSE IF ~is_whitespace(inp[i]) THEN NotWritten
    ELSE
      LET e == First(inp, i + 1, {"="})
          nameOk ==
              /\ e > i + 1
              /\ e < Len(inp)
              /\ \A k \in (i + 1)..(e - 1) :
                     ~is_whitespace(inp[k]) /\ inp[k] \notin {"/", ">"}
      IN
      IF ~nameOk THEN NotWritten
      ELSE
        LET name == SubSeq(inp, i + 1, e - 1)
            quoted == inp[e + 1] \in {"\"", "'"}
            \* position of the closing quote, or of the character that
            \* ends an unquoted value
            z == IF quoted THEN First(inp, e + 2, {inp[e + 1]})
                 ELSE First(inp, e + 1, {" ", "\t", "\n", "\r", "\f", ">"})
            value == IF quoted THEN SubSeq(inp, e + 2, z - 1)
                     ELSE SubSeq(inp, e + 1, z - 1)
        IN
        IF z = 0 \/ (~quoted /\ z = e + 1) THEN NotWritten
        ELSE
          LET rest == ReadWritten(inp, IF quoted THEN z + 1 ELSE z)
          IN  IF rest.ok
              THEN [ok |-> TRUE,
                    attrs |-> <<[name |-> name, value |-> value]>> \o rest.attrs]
              ELSE NotWritten

\* the attributes written in a start tag at the head of inp
Written(inp) ==
    IF Len(inp) >= 3 /\ inp[1] = "<" /\ is_ascii_alphabetic(inp[2])
    THEN IF \E j \in 3..Len(inp) : ~is_ascii_alphabetic(inp[j])
         THEN ReadWritten(inp, CHOOSE j \in 3..Len(inp) :
                                   /\ ~is_ascii_alphabetic(inp[j])
                                   /\ \A k \in 3..(j - 1) :
                                          is_ascii_alphabetic(inp[k]))
         ELSE NotWritten
    ELSE NotWritten

FoldNames(as) ==
    [i \in 1..Len(as) |-> [name |-> Lowered(as[i].name), value |-> as[i].value]]

\* the claim as stated: the names as written
C6_WrittenNames ==
    (out # <<>> \/ pc = "panicked") =>
        LET w == Written(input)
        IN  w.ok => /\ out # <<>>
                    /\ out[1].type = "StartTag"
                    /\ out[1].attributes = w.attrs

\* the names folded to ASCII lowercase, the values as written
C6_FoldedNames ==
    (out # <<>> \/ pc = "panicked") =>
        LET w == Written(input)
        IN  w.ok => /\ out # <<>>
                    /\ out[1].type = "StartTag"
                    /\ out[1].attributes = FoldNames(w.attrs)

C6_Witness ==
    /\ input = <<"<","p"," ","c","l","a","s","s","=","\"","A","\""," ","i","d","=","'","B","'"," ","f","o","o","=","b","a","r",">","<","/","p",">">>
    /\ Written(input).ok
    /\ Len(Written(input).attrs) = 3
    /\ out # <<>>
    /\ Len(out[1].attributes) = 3

(***************************************************************************)
(* C7: an input "<t/>" or "<t />" yields the single token                  *)
(* StartTag{lowercase(t), self_closing: true, []} and every later pull     *)
(* nothing; an emitted StartTag has self_closing set only if it was        *)
(* emitted by SelfClosingStartTag on '>'.                                  *)
(***************************************************************************)
\* the position of the last letter of t if inp is "<t/>" or "<t />", else 0
SelfClosingForm(inp) ==
    LET n == Len(inp)
    IN  IF n >= 4 /\ inp[1] = "<" /\ inp[n] = ">" /\ inp[n - 1] = "/"
        THEN LET e == IF inp[n - 2] = " " THEN n - 3 ELSE n - 2
             IN  IF e >= 2 /\ \A i \in 2..e : is_ascii_alphabetic(inp[i])
                 THEN e ELSE 0
        ELSE 0

C7_SelfClosing ==
    /\ LET e == SelfClosingForm(input)
           t == StartTag(Lowered(SubSeq(input, 2, e)), TRUE, <<>>)
       IN  e > 0 => /\ pc # "panicked"
                    /\ out = <<>> \/ out = <<t>>
                    /\ (pc = "idle" /\ pos > 0) => out = <<t>>
                    /\ nones >= 1 => (out = <<t>> /\ last = None)
    /\ \A i \in 1..Len(out) :
           (out[i].type = "StartTag" /\ out[i].self_closing)
               => via[i] = [state |-> "SelfClosingStartTag", c |-> ">"]

C7_Witness ==
    /\ input = <<"<","i","m","g"," ","/",">">>
    /\ nones >= 2
    /\ out = <<StartTag(<<"i","m","g">>, TRUE, <<>>)>>

(***************************************************************************)
(* C8: in every emitted StartTag and EndTag the tag name and the attribute *)
(* names hold no ASCII uppercase letter: they are the lowercase of the     *)
(* source characters; every attribute value holds the source characters    *)
(* with their case unchanged.                                              *)
(***************************************************************************)
\* u is the lowercase of a run of consecutive characters of s
FoldedOccursIn(u, s) ==
    \E i \in 0..(Len(s) - Len(u)) : Lowered(SubSeq(s, i + 1, i + Len(u))) = u

C8_CaseFolding ==
    \A i \in 1..Len(out) :
        /\ out[i].type \in {"StartTag", "EndTag"}
               => NoUpper(out[i].tag) /\ FoldedOccursIn(out[i].tag, input)
        /\ out[i].type = "StartTag"
               => \A k \in 1..Len(out[i].attributes) :
                      LET a == out[i].attributes[k]
                      IN  /\ NoUpper(a.name)
                          /\ FoldedOccursIn(a.name, input)
                          /\ OccursIn(a.value, input)

C8_Witness ==
    /\ input = <<"<","D","I","V"," ","C","L","A","S","S","=","\"","x","\"",">">>
    /\ out = <<StartTag(<<"d","i","v">>, FALSE,
                        <<[name |-> <<"c","l","a","s","s">>, value |-> <<"x">>]>>)>>

(***************************************************************************)
(* C9: a pull that starts with the cursor at the end of the input (the     *)
(* first pull on the empty input in particular) yields no token and        *)
(* changes no field of the tokenizer, so later pulls yield none either.    *)
(***************************************************************************)
C9_NoneAtEnd ==
    [][(pc = "idle" /\ pos >= Len(input))
          => /\ last' = None
             /\ pc' = "idle"
             /\ out' = out
             /\ UNCHANGED tok]_vars

C9_Witness ==
    /\ input = <<>>
    /\ nones >= 2
    /\ last = None
    /\ out = <<>>

(***************************************************************************)
(* C10: every iteration of the loop of next() returns a token or advances  *)
(* the cursor, except the iterations that reconsume, of which at most      *)
(* three follow one another: no cycle re-delivers a character forever.     *)
(***************************************************************************)
C10_Progress ==
    /\ [](run <= 3)
    /\ [][(pc = "loop" /\ pc' # "panicked")
             => (reconsume \/ pos' = pos + 1 \/ out' # out)]_vars

C10_Witness == run = 3 /\ pc = "loop"

(***************************************************************************)
(* C11: the in-progress slot is empty in Data, TagOpen and EndTagOpen and  *)
(* holds a tag in TagName and in every attribute / self-closing state; a   *)
(* StartTag or EndTag is returned only by a step that was delivered '>',   *)
(* and that step leaves the slot empty and the state Data; the is_some     *)
(* assertions of the helpers never fail.                                   *)
(***************************************************************************)
BuildingStates == InTagStates \ {"TagOpen", "EndTagOpen"}

IsTag(token) == token.type \in {"StartTag", "EndTag"}

C11_SlotFollowsState ==
    /\ state \in {"Data", "TagOpen", "EndTagOpen"} => latest_token = None
    /\ state \in BuildingStates => IsTag(latest_token)
    /\ \A i \in 1..Len(out) : IsTag(out[i]) => via[i].c = ">"
    /\ (pc = "idle" /\ IsTag(last)) => (latest_token = None /\ state = "Data")
    /\ fault # "assertion failed: latest_token.is_some()"

C11_Witness ==
    /\ pc = "idle"
    /\ last = EndTag(<<"a">>)
    /\ Len(out) >= 2
    /\ latest_token = None
    /\ state = "Data"

(***************************************************************************)
(* C12: start_new_attribute, append_attribute and set_self_closing_flag    *)
(* run only while the in-progress token is a StartTag, for every input     *)
(* (also an end tag followed by whitespace and more, or by '/').           *)
(***************************************************************************)
C12_OnlyOnStartTag == fault # "latest_token should be a StartTag"

(***************************************************************************)
(* C13: while a StartTag is in progress, its attribute list is non-empty   *)
(* in AttributeName, BeforeAttributeValue and the three AttributeValue     *)
(* states, and in AfterAttributeName unless the character about to be      *)
(* processed is '/' or '>'; append_attribute always finds a last attribute.*)
(***************************************************************************)
AttributeStates ==
    {"AttributeName", "BeforeAttributeValue", "AttributeValueDoubleQuoted",
     "AttributeValueSingleQuoted", "AttributeValueUnquoted"}

C13_AttributeExists ==
    /\ latest_token.type = "StartTag" =>
          /\ state \in AttributeStates => latest_token.attributes # <<>>
          /\ (state = "AfterAttributeName" /\ latest_token.attributes = <<>>)
                 => /\ reconsume
                    /\ pos >= 1
                    /\ input[pos] \in {"/", ">"}
    /\ fault # "attribute must be exists"

C13_Witness ==
    /\ pc = "loop"
    /\ state = "BeforeAttributeValue"
    /\ latest_token.type = "StartTag"
    /\ Len(latest_token.attributes) = 1
    /\ latest_token.attributes[1].name = <<"b">>

(***************************************************************************)
(* C14: in a start tag whose name and attributes are separated by runs of  *)
(* one or more whitespace characters (also before '>' or "/>"), the        *)
(* emitted StartTag has exactly one attribute per attribute written.       *)
(***************************************************************************)
\* the attributes written in inp from position i on, separated by runs of
\* whitespace; i is the position that follows the tag name or an attribute
RECURSIVE ReadSpaced(_, _)
ReadSpaced(inp, i) ==
    IF ~\E j \in i..Len(inp) : ~is_whitespace(inp[j]) THEN NotWritten
    ELSE
      LET j == CHOOSE j \in i..Len(inp) :
                   /\ ~is_whitespace(inp[j])
                   /\ \A k \in i..(j - 1) : is_whitespace(inp[k])
      IN
      IF inp[j] = ">" THEN [ok |-> TRUE, attrs |-> <<>>]
      ELSE IF inp[j] = "/"
      THEN IF j < Len(inp) /\ inp[j + 1] = ">"
           THEN [ok |-> TRUE, attrs |-> <<>>] ELSE NotWritten
      ELSE IF j = i THEN NotWritten
      ELSE
        LET e == First(inp, j, {"="})
            nameOk ==
                /\ e > j
                /\ e < Len(inp)
                /\ \A k \in j..(e - 1) :
                       ~is_whitespace(inp[k]) /\ inp[k] \notin {"/", ">"}
        IN
        IF ~nameOk THEN NotWritten
        ELSE
          LET quoted == inp[e + 1] \in {"\"", "'"}
              z == IF quoted THEN First(inp, e + 2, {inp[e + 1]})
                   ELSE First(inp, e + 1, {" ", "\t", "\n", "\r", "\f", ">"})
              value == IF quoted THEN SubSeq(inp, e + 2, z - 1)
                       ELSE SubSeq(inp, e + 1, z - 1)
          IN
          IF z = 0 \/ (~quoted /\ z = e + 1) THEN NotWritten
          ELSE
            LET rest == ReadSpaced(inp, IF quoted THEN z + 1 ELSE z)
            IN  IF rest.ok
                THEN [ok |-> TRUE,
                      attrs |-> <<[name |-> SubSeq(inp, j, e - 1),
                                   value |-> value]>> \o rest.attrs]
                ELSE NotWritten

\* the attributes written in a start tag at the head of inp
WrittenSpaced(inp) ==
    IF Len(inp) >= 3 /\ inp[1] = "<" /\ is_ascii_alphabetic(inp[2])
    THEN IF \E j \in 3..Len(inp) : ~is_ascii_alphabetic(inp[j])
         THEN ReadSpaced(inp, CHOOSE j \in 3..Len(inp) :
                                  /\ ~is_ascii_alphabetic(inp[j])
                                  /\ \A k \in 3..(j - 1) :
                                         is_ascii_alphabetic(inp[k]))
         ELSE NotWritten
    ELSE NotWritten

C14_WhitespaceSeparates ==
    out # <<>> =>
        LET w == WrittenSpaced(input)
        IN  w.ok => /\ out[1].type = "StartTag"
                    /\ Len(out[1].attributes) = Len(w.attrs)
                    /\ \A k \in 1..Len(out[1].attributes) :
                           out[1].attributes[k] # NewAttribute

(***************************************************************************)
(* C15: a freshly constructed tokenizer never enters ScriptData,           *)
(* ScriptDataLessThanSign, ScriptDataEndTagOpen, ScriptDataEndTagName or   *)
(* TemporaryBuffer, whatever the input (not even after a StartTag named    *)
(* "script"), and its side buffer stays empty.                             *)
(***************************************************************************)
ScriptStates ==
    {"ScriptData", "ScriptDataLessThanSign", "ScriptDataEndTagOpen",
     "ScriptDataEndTagName", "TemporaryBuffer"}

C15_NoScriptStates == state \notin ScriptStates /\ buf = <<>>

C15_Witness ==
    /\ Len(out) >= 2
    /\ out[1] = StartTag(<<"s","c","r","i","p","t">>, FALSE, <<>>)
    /\ out[2] = Char("j")
    /\ state = "Data"

(***************************************************************************)
(* C18: the cursor never decreases; an iteration that consumes advances it *)
(* by exactly one and is delivered the character there; a reconsume        *)
(* iteration leaves it unchanged, is delivered the character at cursor-1   *)
(* and clears the flag; whenever the flag is set the cursor is at least 1  *)
(* and the character at cursor-1 is the one delivered last.                *)
(***************************************************************************)
C18_Cursor ==
    /\ [](reconsume => (pos >= 1 /\ pos <= Len(input) /\ cur = input[pos]))
    /\ [][/\ pos' >= pos
          /\ (pc = "loop" /\ pc' # "panicked") =>
                IF reconsume
                THEN /\ pos' = pos
                     /\ cur' = input[pos]
                     /\ ~reconsume_input(Tokenizer).t.reconsume
                ELSE /\ pos' = pos + 1
                     /\ cur' = input[pos + 1]]_vars

C18_Witness ==
    /\ pc = "loop"
    /\ run >= 1
    /\ ~reconsume
    /\ pos >= 2
    /\ cur = input[pos]

(***************************************************************************)
(* C19: in Data, a '<' followed by a character c that is neither '/' nor   *)
(* an ASCII letter emits no token for the '<': TagOpen goes back to Data   *)
(* with c to be processed again, and Data emits Char(c) or, if c is '<',   *)
(* opens a tag again; Char('<') never appears in the output.               *)
(***************************************************************************)
C19_LessThanDropped ==
    /\ [](\A i \in 1..Len(out) : out[i] # Char("<"))
    /\ [][/\ (/\ pc = "loop" /\ state = "TagOpen" /\ pos < Len(input)
              /\ input[pos + 1] # "/" /\ ~is_ascii_alphabetic(input[pos + 1]))
             => /\ pc' = "loop"
                /\ state' = "Data"
                /\ reconsume'
                /\ pos' = pos + 1
                /\ out' = out
          /\ (pc = "loop" /\ state = "Data" /\ reconsume)
             => IF input[pos] = "<"
                THEN state' = "TagOpen" /\ pc' = "loop" /\ out' = out
                ELSE /\ state' = "Data"
                     /\ pc' = "idle"
                     /\ out' = Append(out, Char(input[pos]))]_vars

C19_Witness ==
    /\ pc = "idle"
    /\ pos = 3
    /\ input[2] = "<"
    /\ input[3] = ">"
    /\ via[Len(via)] = [state |-> "Data", c |-> ">"]
    /\ out = <<Char(input[1]), Char(">")>>

(***************************************************************************)
(* C16: once the state has been switched to ScriptData, ScriptDataEndTagOpen*)
(* returns Char('<'), arms reconsume and goes back to ScriptData whether   *)
(* or not the character is ASCII alphabetic; the state stays within        *)
(* ScriptData, ScriptDataLessThanSign and ScriptDataEndTagOpen, and every  *)
(* token emitted after the switch is a Char (never an EndTag).             *)
(***************************************************************************)
C16_EndTagOpenIsLiteral ==
    /\ [](switched # <<>> =>
            /\ state \in {"ScriptData", "ScriptDataLessThanSign",
                          "ScriptDataEndTagOpen"}
            /\ \A i \in (switched[2] + 1)..Len(out) :
                   /\ out[i].type = "Char"
                   /\ via[i].state = "ScriptDataEndTagOpen"
                          => out[i] = Char("<"))
    /\ [][(pc = "loop" /\ state = "ScriptDataEndTagOpen" /\ pc' # "panicked")
             => /\ pc' = "idle"
                /\ last' = Char("<")
                /\ out' = Append(out, Char("<"))
                /\ state' = "ScriptData"
                /\ reconsume'
                /\ pos' = pos + 1]_vars

C16_Witness ==
    /\ switched # <<>>
    /\ pc = "idle"
    /\ via # <<>>
    /\ via[Len(via)] = [state |-> "ScriptDataEndTagOpen", c |-> "a"]
    /\ last = Char("<")
    /\ state = "ScriptData"
    /\ reconsume

(***************************************************************************)
(* C17: with the state switched to ScriptData before the first pull, an    *)
(* input without '/' is emitted as literal text: once the pulls yield      *)
(* nothing more, they have yielded exactly one Char per input character,   *)
(* in input order.                                                         *)
(***************************************************************************)
C17_LiteralText ==
    (switched = <<0, 0>> /\ "/" \notin Range(input) /\ nones >= 1)
        => out = CharTokens(input)

(***************************************************************************)
(* C20: when, in a start tag, the closing quote of a quoted attribute      *)
(* value is immediately followed by a character c that is not whitespace,  *)
(* '/' or '>', the tokens of the input are identical to the tokens of the  *)
(* same input with one space inserted between the closing quote and c.     *)
(***************************************************************************)
\* inp with one space inserted after its first k characters
InsertSpace(inp, k) ==
    SubSeq(inp, 1, k) \o <<" ">> \o SubSeq(inp, k + 1, Len(inp))

\* the closing quote has just been consumed (it is input[pos]) and c follows
QuoteThenChar ==
    /\ pc = "loop"
    /\ state = "AfterAttributeValueQuoted"
    /\ latest_token.type = "StartTag"
    /\ pos < Len(input)
    /\ ~is_whitespace(input[pos + 1])
    /\ input[pos + 1] \notin {"/", ">"}

C20_MissingWhitespace ==
    QuoteThenChar =>
        /\ input[pos] \in {"\"", "'"}
        /\ IsPrefix(out, Tokens(new(input)))
        /\ Tokens(new(input)) = Tokens(new(InsertSpace(input, pos)))

C20_Witness ==
    /\ pc = "idle"
    /\ pos = Len(input)
    /\ " " \notin Range(SubSeq(input, 4, Len(input)))
    /\ out = Tokens(new(input))
    /\ Len(out) = 1
    /\ out[1].type = "StartTag"
    /\ Len(out[1].attributes) = 2
    /\ out[1].attributes[1].value = <<"v">>
    /\ out[1].attributes[2].name = <<"c">>

(***************************************************************************)
(* C21: while a tag is under construction, accumulation is append-only:    *)
(* every step leaves the tag name and the name and value of every existing *)
(* attribute unchanged or extended at the end by exactly one character,    *)
(* the attribute list changes only by one empty attribute pushed at its    *)
(* end, and add_char(ch, is_name) appends ch to exactly one of name and    *)
(* value and leaves the other field unchanged.                             *)
(***************************************************************************)
\* s2 is s, or s with one character pushed at its end
Extended(s, s2) ==
    \/ s2 = s
    \/ Len(s2) = Len(s) + 1 /\ SubSeq(s2, 1, Len(s)) = s

Attributes(token) ==
    IF token.type = "StartTag" THEN token.attributes ELSE <<>>

C21_AppendOnly ==
    /\ [](Attributes(latest_token) # <<>> =>
            LET a == latest_token.attributes[Len(latest_token.attributes)]
            IN  /\ add_char(a, cur, TRUE) =
                       [name |-> Append(a.name, cur), value |-> a.value]
                /\ add_char(a, cur, FALSE) =
                       [name |-> a.name, value |-> Append(a.value, cur)])
    /\ [][/\ (latest_token = None /\ IsTag(latest_token'))
             => latest_token'.tag = <<>> /\ Attributes(latest_token') = <<>>
          /\ (IsTag(latest_token) /\ IsTag(latest_token'))
             => LET as == Attributes(latest_token)
                    as2 == Attributes(latest_token')
                IN  /\ latest_token'.type = latest_token.type
                    /\ Extended(latest_token.tag, latest_token'.tag)
                    /\ \/ as2 = as
                       \/ as2 = Append(as, NewAttribute)
                       \/ /\ Len(as2) = Len(as)
                          /\ \A k \in 1..Len(as) :
                                /\ Extended(as[k].name, as2[k].name)
                                /\ Extended(as[k].value, as2[k].value)
                                /\ as2[k].name = as[k].name
                                       \/ as2[k].value = as[k].value]_vars

C21_Witness ==
    /\ pc = "loop"
    /\ latest_token.type = "StartTag"
    /\ latest_token.tag # <<>>
    /\ Len(latest_token.attributes) = 2
    /\ latest_token.attributes[1].name # <<>>
    /\ latest_token.attributes[1].value # <<>>
    /\ Len(latest_token.attributes[2].value) >= 2

====
